---- MODULE Spec2Model ----
(***************************************************************************)
(* A model of GalSim's additive composite profile (SBAdd, src/src/SBAdd.cpp)*)
(* and of the Spergel profile with its shared SpergelInfo records          *)
(* (src/unnamed/part_000 = SBSpergel.cpp, include/galsim/SBSpergelImpl.h).  *)
(*                                                                         *)
(* Numbers: doubles are modelled by exact integers and by unreduced        *)
(* fractions <<num, den>>.  A fraction with den = 0 stands for the         *)
(* non-finite result of an IEEE division by zero (inf or NaN).             *)
(***************************************************************************)
EXTENDS Integers, Sequences, FiniteSets, TLC

VARIABLES
    obj,      \* the SBAddImpl most recently constructed (NoObj before any)
    ret,      \* what the last finished call on the composite returned
    pc,       \* position of the (single) caller in SBAddImpl::shoot
    sh        \* the locals of a running SBAddImpl::shoot

addVars == <<obj, ret, pc, sh>>

VARIABLES
    cache,    \* SBSpergelImpl::cache: entries <<key, record id>>, most recent first
    info,     \* the SpergelInfo records ever allocated, by id
    insts,    \* the SBSpergelImpl instances alive, in construction order
    gone,     \* ids of the records the cache has evicted
    cret      \* what the last SBSpergelImpl construction did

cacheVars == <<cache, info, insts, gone, cret>>

VARIABLES
    thr,      \* each thread's position in a SpergelInfo method, and its locals
    heap,     \* the FluxDensity and OneDimensionalDeviate objects: next id, ids freed
    lret      \* what the last finished SpergelInfo call of the single caller returned

lazyVars == <<thr, heap, lret>>

VARIABLES
    im,       \* the memory under the ImageView handed to the last grid fill
    fret      \* the arguments of the last grid fill

fillVars == <<im, fret>>

VARIABLES
    val,      \* the matrix handed to the last SBAddImpl::fillXValue / fillKValue
    fcall     \* that call: its arguments, its calls of the members, its scratch matrix

gridVars == <<val, fcall>>

vars == <<obj, ret, pc, sh, cache, info, insts, gone, cret, thr, heap, lret, im, fret,
          val, fcall>>

----------------------------------------------------------------------------
(* Bounds of the model *)

\* number of distinct simple (non-composite) profiles
NLeaf == 3
\* longest list handed to the SBAdd constructor
MaxArgs == 2
\* longest flattened member list kept
MaxLen == MaxArgs + 1
\* number of sample points for xValue / kValue
NPts == 2
\* largest photon count asked of shoot
MaxN == 3
\* capacity of the SpergelInfo cache (sbp::max_spergel_cache, scaled down)
max_spergel_cache == 2
\* number of SBSpergel constructions followed
MaxInst == 4
\* largest number of columns and of rows of an image view
MaxDim == 2
\* largest padding between the rows of an image view
MaxSkip == 1

----------------------------------------------------------------------------
(* Arithmetic on unreduced fractions *)

Frac(n) == <<n, 1>>
FMul(a, b) == <<a[1] * b[1], a[2] * b[2]>>
FDiv(a, b) == <<a[1] * b[2], a[2] * b[1]>>
FAdd(a, b) == <<a[1] * b[2] + b[1] * a[2], a[2] * b[2]>>

Max(a, b) == IF a >= b THEN a ELSE b

RECURSIVE GCD(_, _)
GCD(a, b) == IF b = 0 THEN a ELSE GCD(b, a % b)

\* the same value in lowest terms with a positive denominator; a non-finite value
\* keeps only the sign of its numerator (+inf, -inf, NaN)
FNorm(a) ==
    LET n == IF a[2] < 0 THEN -a[1] ELSE a[1]
        d == IF a[2] < 0 THEN -a[2] ELSE a[2]
        g == GCD(IF n < 0 THEN -n ELSE n, d)
    IN IF d = 0 THEN <<(IF n > 0 THEN 1 ELSE IF n < 0 THEN -1 ELSE 0), 0>>
       ELSE <<n \div g, d \div g>>

----------------------------------------------------------------------------
(* The simple profiles a composite is built from: what each one's          *)
(* SBProfile accessors return.  Entry i belongs to leaf i.                 *)

LeafIds == 1..NLeaf
Pts == 1..NPts

LeafFlux    == <<2, 1, 0, -1, 3, -2, 1>>
LeafPosFlux == <<2, 1, 0, 0, 3, 0, 1>>
LeafNegFlux == <<0, 0, 0, 1, 0, 2, 0>>
LeafCx      == <<0, 1, 2, -1, 1, 0, 3>>
LeafCy      == <<0, 0, 1, 2, -1, 1, 0>>
LeafMaxK    == <<3, 1, 2, 4, 1, 5, 2>>
LeafStepK   == <<2, 0, 1, -1, 3, 2, 0>>
LeafAxisym  == <<TRUE, TRUE, FALSE, TRUE, TRUE, FALSE, TRUE>>
LeafHard    == <<FALSE, TRUE, FALSE, FALSE, TRUE, FALSE, FALSE>>
LeafAnaX    == <<TRUE, TRUE, TRUE, FALSE, TRUE, TRUE, FALSE>>
LeafAnaK    == <<TRUE, FALSE, TRUE, TRUE, FALSE, TRUE, TRUE>>
LeafGs      == <<1, 2, 1, 2, 1, 2, 1>>
LeafXVal(i, p) == ((3 * i + 2 * p) % 5) - 1
LeafKVal(i, k) == <<((2 * i + k) % 4) - 1, ((i + 3 * k) % 3) - 1>>

\* the GSParams objects a caller can pass; 0 is the null GSParamsPtr
GsSet == {1, 2}
NullGs == 0

----------------------------------------------------------------------------
(* Profile handles.  A handle is a record of one shape for both kinds;     *)
(* a leaf uses only kind and id, a composite carries its SBAddImpl fields. *)

NoImpl == [plist |-> <<>>, gs |-> NullGs,
           sumflux |-> 0, sumfx |-> Frac(0), sumfy |-> Frac(0),
           maxMaxK |-> 0, minStepK |-> 0,
           allAxisymmetric |-> TRUE, allAnalyticX |-> TRUE,
           allAnalyticK |-> TRUE, anyHardEdges |-> FALSE]

\* a simple profile has no SBAddImpl behind it
NoAddImpl == [plist |-> <<>>]

Leaf(i) == [kind |-> "leaf", id |-> i, impl |-> NoAddImpl]
SBAdd(impl) == [kind |-> "SBAdd", id |-> 0, impl |-> impl]
NoObj == [kind |-> "none", id |-> 0, impl |-> NoAddImpl]

Leaves == {Leaf(i) : i \in LeafIds}

\* SBProfile accessors, dispatched on the implementation behind the handle
getFlux(p) == IF p.kind = "leaf" THEN LeafFlux[p.id] ELSE p.impl.sumflux
centroid(p) ==
    IF p.kind = "leaf" THEN <<Frac(LeafCx[p.id]), Frac(LeafCy[p.id])>>
    ELSE <<FDiv(p.impl.sumfx, Frac(p.impl.sumflux)),
           FDiv(p.impl.sumfy, Frac(p.impl.sumflux))>>
maxK(p) == IF p.kind = "leaf" THEN LeafMaxK[p.id] ELSE p.impl.maxMaxK
stepK(p) == IF p.kind = "leaf" THEN LeafStepK[p.id] ELSE p.impl.minStepK
isAxisymmetric(p) == IF p.kind = "leaf" THEN LeafAxisym[p.id] ELSE p.impl.allAxisymmetric
hasHardEdges(p) == IF p.kind = "leaf" THEN LeafHard[p.id] ELSE p.impl.anyHardEdges
isAnalyticX(p) == IF p.kind = "leaf" THEN LeafAnaX[p.id] ELSE p.impl.allAnalyticX
isAnalyticK(p) == IF p.kind = "leaf" THEN LeafAnaK[p.id] ELSE p.impl.allAnalyticK
gsparamsOf(p) == IF p.kind = "leaf" THEN LeafGs[p.id] ELSE p.impl.gs

----------------------------------------------------------------------------
(* SBAdd::SBAddImpl construction *)

\* add without the dynamic_cast branch: every rhs is pushed as it is
addNesting(plist, rhs) == Append(plist, rhs)

\* SBAddImpl::add
add(plist, rhs) ==
    IF rhs.kind = "SBAdd" THEN plist \o rhs.impl.plist
    ELSE Append(plist, rhs)

\* the constructor's loop: add(*sptr) for every element of slist, in order
RECURSIVE addAll(_, _)
addAll(plist, slist) ==
    IF slist = <<>> THEN plist
    ELSE addAll(add(plist, Head(slist)), Tail(slist))

\* the loop body of initialize with the centroid sums not weighted by the flux
initStepUnweighted(acc, it) ==
    [acc EXCEPT
        !.sumflux = @ + getFlux(it),
        !.sumfx = FAdd(@, centroid(it)[1]),
        !.sumfy = FAdd(@, centroid(it)[2]),
        !.maxMaxK = IF maxK(it) > @ THEN maxK(it) ELSE @,
        !.minStepK = IF @ <= 0 \/ stepK(it) < @ THEN stepK(it) ELSE @,
        !.allAxisymmetric = @ /\ isAxisymmetric(it),
        !.anyHardEdges = @ \/ hasHardEdges(it),
        !.allAnalyticX = @ /\ isAnalyticX(it),
        !.allAnalyticK = @ /\ isAnalyticK(it)]

\* one pass of the loop body of initialize, the summand being `it`
initStep(acc, it) ==
    [acc EXCEPT
        !.sumflux = @ + getFlux(it),
        !.sumfx = FAdd(@, FMul(Frac(getFlux(it)), centroid(it)[1])),
        !.sumfy = FAdd(@, FMul(Frac(getFlux(it)), centroid(it)[2])),
        !.maxMaxK = IF maxK(it) > @ THEN maxK(it) ELSE @,
        !.minStepK = IF @ <= 0 \/ stepK(it) < @ THEN stepK(it) ELSE @,
        !.allAxisymmetric = @ /\ isAxisymmetric(it),
        !.anyHardEdges = @ \/ hasHardEdges(it),
        !.allAnalyticX = @ /\ isAnalyticX(it),
        !.allAnalyticK = @ /\ isAnalyticK(it)]

RECURSIVE initLoop(_, _)
initLoop(acc, rest) ==
    IF rest = <<>> THEN acc
    ELSE initLoop(initStep(acc, Head(rest)), Tail(rest))

\* SBAddImpl::initialize
initialize(impl) ==
    initLoop([impl EXCEPT
                 !.sumflux = 0, !.sumfx = Frac(0), !.sumfy = Frac(0),
                 !.maxMaxK = 0, !.minStepK = 0,
                 !.allAxisymmetric = TRUE, !.allAnalyticX = TRUE,
                 !.allAnalyticK = TRUE, !.anyHardEdges = FALSE],
             impl.plist)

\* SBAddImpl::SBAddImpl with the base-class gsparams already chosen
SBAddImpl(slist, gs) ==
    initialize([NoImpl EXCEPT !.plist = addAll(<<>>, slist), !.gs = gs])

\* number of members the flattened list of slist will have
RECURSIVE flatLen(_)
flatLen(slist) ==
    IF slist = <<>> THEN 0
    ELSE (IF Head(slist).kind = "SBAdd" THEN Len(Head(slist).impl.plist) ELSE 1)
         + flatLen(Tail(slist))

SeqsUpTo(S, n) == UNION {[1..k -> S] : k \in 0..n}

\* the profiles a caller has at hand: the simple ones and the composite built last
Handles == Leaves \cup (IF obj.kind = "SBAdd" THEN {obj} ELSE {})

NoRet == [op |-> "none", args |-> <<>>, pt |-> 0,
          val |-> <<0, 0>>, err |-> "none",
          photons |-> <<>>, correlated |-> FALSE, log |-> <<>>]

\* SBAdd::SBAdd(slist, gsparams) with a list that has a front element, or with
\* gsparams given
Construct(slist, gsp) ==
    /\ pc = "idle"
    /\ flatLen(slist) <= MaxLen
    /\ slist # <<>> \/ gsp # NullGs
    /\ obj' = SBAdd(SBAddImpl(slist, IF gsp # NullGs THEN gsp ELSE gsparamsOf(slist[1])))
    /\ ret' = [NoRet EXCEPT !.op = "construct", !.args = slist]
    /\ UNCHANGED <<pc, sh>>

\* SBAdd::SBAdd(empty list, null gsparams): slist.front() of an empty std::list is
\* undefined behaviour; the build either faults or reads some GSParams
ConstructEmptyNull ==
    /\ pc = "idle"
    /\ \/ /\ pc' = "crashed"
          /\ ret' = [NoRet EXCEPT !.op = "construct", !.err = "crash"]
          /\ UNCHANGED <<obj, sh>>
       \/ \E g \in GsSet :
            /\ obj' = SBAdd(SBAddImpl(<<>>, g))
            /\ ret' = [NoRet EXCEPT !.op = "construct"]
            /\ UNCHANGED <<pc, sh>>

----------------------------------------------------------------------------
(* Evaluation *)

RECURSIVE xValue(_, _)
\* the loop of SBAddImpl::xValue over the members after the first
RECURSIVE xLoop(_, _, _)
\* xValue with the loop over the later members never entered
xLoopFirstOnly(xv, rest, p) == xv

xLoop(xv, rest, p) ==
    IF rest = <<>> THEN xv
    ELSE xLoop(xv + xValue(Head(rest), p), Tail(rest), p)

\* SBProfile::xValue: a leaf's table value, or SBAddImpl::xValue (non-empty list)
xValue(prof, p) ==
    IF prof.kind = "leaf" THEN LeafXVal(prof.id, p)
    ELSE xLoop(xValue(Head(prof.impl.plist), p), Tail(prof.impl.plist), p)

CAdd(a, b) == <<a[1] + b[1], a[2] + b[2]>>

RECURSIVE kValue(_, _)
RECURSIVE kLoop(_, _, _)
kLoop(kv, rest, k) ==
    IF rest = <<>> THEN kv
    ELSE kLoop(CAdd(kv, kValue(Head(rest), k)), Tail(rest), k)

\* SBProfile::kValue: a leaf's table value, or SBAddImpl::kValue (non-empty list)
kValue(prof, k) ==
    IF prof.kind = "leaf" THEN LeafKVal(prof.id, k)
    ELSE kLoop(kValue(Head(prof.impl.plist), k), Tail(prof.impl.plist), k)

\* values an out-of-bounds read may produce
Garbage == {-1, 0, 1}

\* a call of SBAddImpl::xValue(p) on the composite
XValue(p) ==
    /\ pc = "idle"
    /\ obj.kind = "SBAdd"
    /\ IF obj.impl.plist # <<>>
       THEN ret' = [NoRet EXCEPT !.op = "xValue", !.pt = p, !.val = <<xValue(obj, p), 0>>]
       ELSE \* assert(pptr != _plist.end()) fails, or with NDEBUG end() is dereferenced
            \E g \in Garbage :
                ret' = [NoRet EXCEPT !.op = "xValue", !.pt = p, !.val = <<g, 0>>,
                                     !.err = "deref-end"]
    /\ UNCHANGED <<obj, pc, sh>>

\* a call of SBAddImpl::kValue(k) on the composite
KValue(k) ==
    /\ pc = "idle"
    /\ obj.kind = "SBAdd"
    /\ IF obj.impl.plist # <<>>
       THEN ret' = [NoRet EXCEPT !.op = "kValue", !.pt = k, !.val = kValue(obj, k)]
       ELSE \E g \in Garbage :
                ret' = [NoRet EXCEPT !.op = "kValue", !.pt = k, !.val = <<g, g>>,
                                     !.err = "deref-end"]
    /\ UNCHANGED <<obj, pc, sh>>

----------------------------------------------------------------------------
(* Grid fill of the composite.  A matrix of colsize m and rowsize n is the     *)
(* sequence of its cells, cell (i, j) at j*m + i + 1; a cell is a pair         *)
(* <<re, im>>, im = 0 for a real-space value.  a holds the call's arguments:   *)
(* the variant, m, n and the lattice.                                         *)

\* the lattice point of cell c: (x0 + i*dx + j*dxy, y0 + i*dyx + j*dy), as the
\* index x + 3*y into the leaves' tables
latticePt(c, a) ==
    LET i == (c - 1) % a.m
        j == (c - 1) \div a.m
    IN (a.x0 + i * a.dx + j * a.dxy) + 3 * (a.y0 + i * a.dyx + j * a.dy)

\* GetImpl(*pptr)->fillXValue(view, ...) / fillKValue(view, ...) of a simple
\* profile: every cell of the view set to the profile's value at its lattice point
memberFill(view, prof, a) ==
    [c \in DOMAIN view |->
        IF a.space = "x" THEN <<LeafXVal(prof.id, latticePt(c, a)), 0>>
        ELSE LeafKVal(prof.id, latticePt(c, a))]

\* the scratch matrix left as the member filled it, the output not added to
accumulateAssign(v, v2) == v2

\* val += val2
accumulate(v, v2) == [c \in DOMAIN v |-> CAdd(v[c], v2[c])]

\* what a matrix holds before anything is stored in it
Fresh == <<99, 99>>

\* tmv::Matrix val2(val.colsize(), val.rowsize())
newMatrix(colsize, rowsize) == [c \in 1..(colsize * rowsize) |-> Fresh]

\* the member call noted: which member, into which matrix, with which arguments
memberCall(prof, into, a) == [id |-> prof.id, into |-> into, a |-> a]

\* the for loop over the members after the first
RECURSIVE gridLoop(_, _, _)
gridLoop(st, rest, a) ==
    IF rest = <<>> THEN st
    ELSE LET filled == memberFill(st.val2, Head(rest), a) IN
         gridLoop([st EXCEPT !.val2 = filled,
                             !.val = accumulate(st.val, filled),
                             !.log = Append(@, memberCall(Head(rest), "val2", a))],
                  Tail(rest), a)

\* the body the four SBAddImpl::fillXValue / fillKValue share, for a non-empty
\* list: the first member into val; if there is a second, val2 made once, each
\* later member into val2 and val += val2; val2 gone at the end of the if
gridFill(plist, out, a) ==
    LET st0 == [val |-> memberFill(out, Head(plist), a), val2 |-> <<>>,
                allocs |-> 0, live |-> 0, peak |-> 0, shape |-> <<0, 0>>,
                log |-> <<memberCall(Head(plist), "val", a)>>]
    IN IF Tail(plist) # <<>>
       THEN LET st1 == [st0 EXCEPT !.val2 = newMatrix(a.m, a.n),
                                   !.allocs = @ + 1, !.live = @ + 1,
                                   !.peak = Max(@, st0.live + 1),
                                   !.shape = <<a.m, a.n>>]
                st2 == gridLoop(st1, Tail(plist), a)
            IN [st2 EXCEPT !.live = @ - 1]
       ELSE st0

\* the arguments of a call
gridArgs(op, space, m, n, x0, dx, dxy, y0, dy, dyx, izero, jzero) ==
    [op |-> op, space |-> space, m |-> m, n |-> n, x0 |-> x0, dx |-> dx,
     dxy |-> dxy, y0 |-> y0, dy |-> dy, dyx |-> dyx, izero |-> izero, jzero |-> jzero]

NoFcall == [a |-> gridArgs("none", "none", 0, 0, 0, 0, 0, 0, 0, 0, 0, 0),
            err |-> "none", allocs |-> 0, live |-> 0, peak |-> 0,
            shape |-> <<0, 0>>, log |-> <<>>]

\* one of the four fills, called on the composite with a fresh m by n matrix
GridFill(a) ==
    /\ pc = "idle"
    /\ obj.kind = "SBAdd"
    /\ IF obj.impl.plist # <<>>
       THEN \E st \in {gridFill(obj.impl.plist, newMatrix(a.m, a.n), a)} :
            /\ val' = st.val
            /\ fcall' = [a |-> a, err |-> "none", allocs |-> st.allocs,
                         live |-> st.live, peak |-> st.peak, shape |-> st.shape,
                         log |-> st.log]
       ELSE \* assert(pptr != _plist.end()) fails, or with NDEBUG end() is dereferenced
            \E g \in Garbage :
                /\ val' = [c \in 1..(a.m * a.n) |-> <<g, g>>]
                /\ fcall' = [NoFcall EXCEPT !.a = a, !.err = "deref-end"]
    /\ UNCHANGED <<obj, ret, pc, sh>>

\* SBAddImpl::fillXValue(val, x0, dx, izero, y0, dy, jzero)
FillXValue(m, n, x0, dx, izero, y0, dy, jzero) ==
    GridFill(gridArgs("fillXValue", "x", m, n, x0, dx, 0, y0, dy, 0, izero, jzero))

\* SBAddImpl::fillKValue(val, kx0, dkx, izero, ky0, dky, jzero)
FillKValue(m, n, kx0, dkx, izero, ky0, dky, jzero) ==
    GridFill(gridArgs("fillKValue", "k", m, n, kx0, dkx, 0, ky0, dky, 0, izero, jzero))

\* SBAddImpl::fillXValue(val, x0, dx, dxy, y0, dy, dyx)
FillXValueSheared(m, n, x0, dx, dxy, y0, dy, dyx) ==
    GridFill(gridArgs("fillXValueSheared", "x", m, n, x0, dx, dxy, y0, dy, dyx, 0, 0))

\* SBAddImpl::fillKValue(val, kx0, dkx, dkxy, ky0, dky, dkyx)
FillKValueSheared(m, n, kx0, dkx, dkxy, ky0, dky, dkyx) ==
    GridFill(gridArgs("fillKValueSheared", "k", m, n, kx0, dkx, dkxy, ky0, dky, dkyx, 0, 0))

----------------------------------------------------------------------------
(* Photon shooting from the composite *)

RECURSIVE getPositiveFlux(_)
RECURSIVE posLoop(_, _)
posLoop(result, rest) ==
    IF rest = <<>> THEN result
    ELSE posLoop(result + getPositiveFlux(Head(rest)), Tail(rest))

\* SBProfile::getPositiveFlux: a leaf's table value, or SBAddImpl::getPositiveFlux
getPositiveFlux(prof) ==
    IF prof.kind = "leaf" THEN LeafPosFlux[prof.id]
    ELSE posLoop(0, prof.impl.plist)

RECURSIVE getNegativeFlux(_)
RECURSIVE negLoop(_, _)
negLoop(result, rest) ==
    IF rest = <<>> THEN result
    ELSE negLoop(result + getNegativeFlux(Head(rest)), Tail(rest))

\* SBProfile::getNegativeFlux: a leaf's table value, or SBAddImpl::getNegativeFlux
getNegativeFlux(prof) ==
    IF prof.kind = "leaf" THEN LeafNegFlux[prof.id]
    ELSE negLoop(0, prof.impl.plist)

\* the values BinomialDeviate(u, n, a/r)() can return: the support of the binomial
\* distribution with n trials and success probability a/r (any count when a/r is
\* not a number, r = 0)
BinomialDeviate(n, a, r) ==
    IF r = 0 THEN 0..n
    ELSE IF a <= 0 THEN {0}
    ELSE IF a >= r THEN {n}
    ELSE 0..n

\* pptr->shoot(thisN, u): thisN photons from member number i, each nominally of
\* weight thisAbsoluteFlux/thisN
memberShoot(i, thisAbsoluteFlux, thisN) ==
    [k \in 1..thisN |-> [src |-> i, w |-> <<thisAbsoluteFlux, thisN>>]]

\* PhotonArray::scaleFlux
scaleFlux(pa, factor) ==
    [k \in 1..Len(pa) |-> [pa[k] EXCEPT !.w = FMul(@, factor)]]

\* the factor handed to scaleFlux: fluxPerPhoton*thisN/thisAbsoluteFlux
rescale(fluxPerPhoton, thisN, thisAbsoluteFlux) ==
    FDiv(FMul(fluxPerPhoton, Frac(thisN)), Frac(thisAbsoluteFlux))

\* setCorrelated decided by a list of more than two
marksCorrelatedOffByOne(plist) == Len(plist) > 2

\* setCorrelated for every list that has a summand at all
marksCorrelatedFromOne(plist) == Len(plist) >= 1

\* the test that decides setCorrelated
marksCorrelated(plist) == Len(plist) > 1

\* the last summand given N, the whole request, instead of what is left of it
allotLastGetsN(isLast, remainingN, thisAbsoluteFlux, remainingAbsoluteFlux) ==
    IF isLast THEN {sh.N}
    ELSE BinomialDeviate(remainingN, thisAbsoluteFlux, remainingAbsoluteFlux)

\* thisN: all of what is left for the last summand, a binomial draw otherwise
allot(isLast, remainingN, thisAbsoluteFlux, remainingAbsoluteFlux) ==
    IF isLast THEN {remainingN}
    ELSE BinomialDeviate(remainingN, thisAbsoluteFlux, remainingAbsoluteFlux)

\* the summand shot even when no photon was allotted to it
shootsAnyCount(thisN) == thisN >= 0

\* the test in front of pptr->shoot: if (thisN > 0)
shoots(thisN) == thisN > 0

\* the loop left while one photon is still to be allotted
breaksOnePhotonEarly(remainingN, remainingAbsoluteFlux) ==
    remainingN <= 1 \/ remainingAbsoluteFlux <= 0

\* the two break statements that end the loop body
breaks(remainingN, remainingAbsoluteFlux) ==
    remainingN <= 0 \/ remainingAbsoluteFlux <= 0

NoShoot == [N |-> 0, totalAbsoluteFlux |-> 0, fluxPerPhoton |-> Frac(0),
            remainingAbsoluteFlux |-> 0, remainingN |-> 0, pptr |-> 0,
            result |-> <<>>, log |-> <<>>]

\* shoot up to the loop: the totals, the empty result, the loop's first test
ShootStart(N) ==
    /\ pc = "idle"
    /\ obj.kind = "SBAdd"
    /\ LET total == getPositiveFlux(obj) + getNegativeFlux(obj) IN
       sh' = [NoShoot EXCEPT
                 !.N = N, !.totalAbsoluteFlux = total,
                 !.fluxPerPhoton = FDiv(Frac(total), Frac(N)),
                 !.remainingAbsoluteFlux = total, !.remainingN = N, !.pptr = 1]
    /\ pc' = IF obj.impl.plist = <<>> THEN "mark" ELSE "loop"
    /\ ret' = NoRet
    /\ UNCHANGED obj

\* one pass of the loop body, for the summand at pptr, and the loop's next test
ShootIter ==
    /\ pc = "loop"
    /\ LET plist == obj.impl.plist
           it == plist[sh.pptr]
           thisAbsoluteFlux == getPositiveFlux(it) + getNegativeFlux(it)
           isLast == sh.pptr + 1 > Len(plist)
       IN
       \E thisN \in allot(isLast, sh.remainingN, thisAbsoluteFlux,
                          sh.remainingAbsoluteFlux) :
         LET thisPA == scaleFlux(memberShoot(sh.pptr, thisAbsoluteFlux, thisN),
                                 rescale(sh.fluxPerPhoton, thisN, thisAbsoluteFlux))
             remN == sh.remainingN - thisN
             remF == sh.remainingAbsoluteFlux - thisAbsoluteFlux
             entry == [i |-> sh.pptr, drew |-> ~isLast, trials |-> sh.remainingN,
                       p |-> <<thisAbsoluteFlux, sh.remainingAbsoluteFlux>>,
                       thisN |-> thisN, shot |-> shoots(thisN)]
         IN
         /\ sh' = [sh EXCEPT
                      !.result = IF shoots(thisN) THEN @ \o thisPA ELSE @,
                      !.remainingN = remN,
                      !.remainingAbsoluteFlux = remF,
                      !.pptr = @ + 1,
                      !.log = Append(@, entry)]
         /\ pc' = IF breaks(remN, remF) \/ isLast THEN "mark" ELSE "loop"
    /\ UNCHANGED <<obj, ret>>

\* after the loop: setCorrelated and return
ShootEnd ==
    /\ pc = "mark"
    /\ ret' = [NoRet EXCEPT
                  !.op = "shoot", !.pt = sh.N,
                  !.photons = sh.result,
                  !.correlated = marksCorrelated(obj.impl.plist),
                  !.log = sh.log]
    /\ pc' = "idle"
    /\ sh' = NoShoot
    /\ UNCHANGED obj

----------------------------------------------------------------------------
(* SBSpergel and its cache of SpergelInfo records.  The index nu is held in *)
(* hundredths, so -85 is nu = -0.85.                                        *)

minimum_spergel_nu == -85
maximum_spergel_nu == 400

\* the indices tried: just below the range, its two ends, just above it
NuSet == {minimum_spergel_nu - 1, minimum_spergel_nu,
          maximum_spergel_nu, maximum_spergel_nu + 1}

\* the (size, rType, flux) a caller asks for
SizeSet == {<<1, "SCALE_RADIUS", 1>>, <<2, "HALF_LIGHT_RADIUS", 3>>}

\* a range test that also turns away the two ends of the range
SpergelInfoThrowsAtEnds(nu) == nu <= minimum_spergel_nu \/ nu >= maximum_spergel_nu

\* SpergelInfo::SpergelInfo throws SBError for an index out of range
SpergelInfoThrows(nu) == nu < minimum_spergel_nu \/ nu > maximum_spergel_nu

\* GSParams fields read by SpergelInfo, per parameter set; the three thresholds in
\* hundredths
folding_threshold(gs) == IF gs = 1 THEN 1 ELSE 5
stepk_minimum_hlr(gs) == IF gs = 1 THEN 5 ELSE 9
maxk_threshold(gs) == IF gs = 1 THEN 1 ELSE 10
shoot_accuracy(gs) == IF gs = 1 THEN 1 ELSE 2

\* std::tgamma(nu + 1) and std::pow(2., nu) at the indices followed, in hundredths
tgamma_nup1(nu) ==
    IF nu = -85 THEN <<622, 100>>
    ELSE IF nu = 50 THEN <<89, 100>>
    ELSE IF nu = 400 THEN <<2400, 100>>
    ELSE <<100, 100>>

pow2(nu) ==
    IF nu = -85 THEN <<55, 100>>
    ELSE IF nu = 50 THEN <<141, 100>>
    ELSE IF nu = 400 THEN <<1600, 100>>
    ELSE <<100, 100>>

\* IEEE +infinity
INFINITY == <<1, 0>>

\* a limit at r = 0 computed from the formula whatever the sign of nu
xnorm0Unguarded(nu) == FMul(FDiv(tgamma_nup1(nu), <<2 * nu, 100>>), pow2(nu))

\* _xnorm0: (_nu > 0.) ? _gamma_nup1 / (2. * _nu) * std::pow(2., _nu) : INFINITY
xnorm0(nu) ==
    IF nu > 0 THEN FMul(FDiv(tgamma_nup1(nu), <<2 * nu, 100>>), pow2(nu))
    ELSE INFINITY

NoRadial == [set |-> FALSE, id |-> 0, kind |-> "none"]
NoSampler == [set |-> FALSE, id |-> 0, on |-> 0]

\* the record SpergelInfo::SpergelInfo leaves: the lazy values still unset.
\* solves counts the computations made for each lazy value.
SpergelInfo(nu, gs) ==
    [nu |-> nu, gs |-> gs, xnorm0 |-> xnorm0(nu),
     maxk |-> 0, stepk |-> Frac(0), re |-> 0,
     radial |-> NoRadial, sampler |-> NoSampler,
     solves |-> [re |-> 0, stepk |-> 0, maxk |-> 0, sampler |-> 0]]

\* SpergelInfo::calculateFluxRadius: the root R of F(R) = flux_frac, flux_frac in
\* hundredths; the solver and the Bessel function are outside this model, so R is a
\* fixed positive value that grows with flux_frac and with nu
calculateFluxRadius(nu, flux_frac) == 1 + (flux_frac * (nu + 200)) \div 2500

\* a getHLR that solves on every call and stores nothing
getHLRNoMemo(rec) ==
    [val |-> calculateFluxRadius(rec.nu, 50),
     rec |-> [rec EXCEPT !.solves.re = @ + 1]]

\* SpergelInfo::getHLR: the memoized value and the record with it stored
getHLR(rec) ==
    LET re == IF rec.re = 0 THEN calculateFluxRadius(rec.nu, 50) ELSE rec.re
    IN [val |-> re,
        rec |-> [rec EXCEPT !.re = re,
                            !.solves.re = IF rec.re = 0 THEN @ + 1 ELSE @]]

\* M_PI, in hundredths
M_PI == <<314, 100>>

\* the value SpergelInfo::stepK computes on first use: M_PI / R
stepKValue(rec) ==
    LET R == calculateFluxRadius(rec.nu, 100 - folding_threshold(rec.gs))
    IN FDiv(M_PI, Frac(Max(R, stepk_minimum_hlr(rec.gs))))

\* SpergelInfo::stepK
infoStepK(rec) ==
    LET v == IF rec.stepk[1] = 0 THEN stepKValue(rec) ELSE rec.stepk
    IN [val |-> v,
        rec |-> [rec EXCEPT !.stepk = v,
                            !.solves.stepk = IF rec.stepk[1] = 0 THEN @ + 1 ELSE @]]

\* the value SpergelInfo::maxK computes on first use,
\* std::pow(maxk_threshold, -1./(2*(1+_nu))), as a fixed positive value that
\* falls with maxk_threshold and with nu
maxKValue(rec) == 1 + 2000 \div (maxk_threshold(rec.gs) * (rec.nu + 100))

\* SpergelInfo::maxK
infoMaxK(rec) ==
    LET v == IF rec.maxk = 0 THEN maxKValue(rec) ELSE rec.maxk
    IN [val |-> v,
        rec |-> [rec EXCEPT !.maxk = v,
                            !.solves.maxk = IF rec.maxk = 0 THEN @ + 1 ELSE @]]

\* math::cyl_bessel_k(_nu, r) * std::pow(r, _nu) at r > 0, r given by its square
\* rsq: the Bessel function is outside this model, so the value is a fixed finite
\* positive one that falls with r and depends on nu
besselTerm(nu, rsq) ==
    LET q == FNorm(rsq) IN <<100 * q[2], (nu + 100) * (q[1] + q[2])>>

\* SpergelInfo::xValue(r), r given by its square: the value, and whether the
\* Bessel function was evaluated
infoXValue(rec, rsq) ==
    IF rsq[1] = 0 THEN [val |-> rec.xnorm0, bessel |-> FALSE]
    ELSE [val |-> besselTerm(rec.nu, rsq), bessel |-> TRUE]

\* SpergelInfo::kValue(ksq) = std::pow(1. + ksq, -1. - _nu), as a fixed finite
\* positive value that falls with ksq and depends on nu
infoKValue(rec, ksq) ==
    LET q == FNorm(ksq) IN <<100 * q[2], (rec.nu + 200) * (q[1] + q[2])>>

\* SpergelInfo::getXNorm, 2^-nu / Gamma(nu+1) / (2 pi), as a fixed positive value
getXNorm(nu) == <<1, nu + 100>>

\* a key that also holds the size asked for
cacheKeyWithSize(nu, gs, size) == <<nu, gs, size>>

\* the key the constructor looks up: MakeTuple(_nu, gsparams.duplicate())
cacheKey(nu, gs, size) == <<nu, gs>>

\* a get that leaves a hit where it stood and drops the newest entry when full
lruGetNoTouch(c, key, newId) ==
    LET pos == {i \in 1..Len(c) : c[i].key = key} IN
    IF pos # {}
    THEN [hit |-> TRUE, rec |-> c[CHOOSE i \in pos : TRUE].rec,
          cache |-> c, evicted |-> {}]
    ELSE IF Len(c) + 1 > max_spergel_cache
         THEN [hit |-> FALSE, rec |-> newId,
               cache |-> <<[key |-> key, rec |-> newId]>> \o Tail(c),
               evicted |-> {c[1].rec}]
         ELSE [hit |-> FALSE, rec |-> newId,
               cache |-> <<[key |-> key, rec |-> newId]>> \o c, evicted |-> {}]

\* LRUCache::get: a hit moves the entry to the front; a miss puts the new record
\* in front and drops the entry at the back when the capacity is exceeded
lruGet(c, key, newId) ==
    LET pos == {i \in 1..Len(c) : c[i].key = key} IN
    IF pos # {}
    THEN LET i == CHOOSE i \in pos : TRUE IN
         [hit |-> TRUE, rec |-> c[i].rec,
          cache |-> <<c[i]>> \o SubSeq(c, 1, i - 1) \o SubSeq(c, i + 1, Len(c)),
          evicted |-> {}]
    ELSE LET grown == <<[key |-> key, rec |-> newId]>> \o c IN
         IF Len(grown) > max_spergel_cache
         THEN [hit |-> FALSE, rec |-> newId,
               cache |-> SubSeq(grown, 1, Len(grown) - 1),
               evicted |-> {grown[Len(grown)].rec}]
         ELSE [hit |-> FALSE, rec |-> newId, cache |-> grown, evicted |-> {}]

NoCret == [kind |-> "none", key |-> <<>>, rec |-> 0]

\* the fields the constructor body sets, given the record the cache returned and
\* what its getHLR returned
SBSpergelImpl(nu, size, rType, flux, gs, rec, hlr) ==
    LET r0 == IF rType = "HALF_LIGHT_RADIUS" THEN <<size, hlr>>
              ELSE Frac(size)
        re == IF rType = "HALF_LIGHT_RADIUS" THEN Frac(size)
              ELSE FMul(Frac(size), Frac(hlr))
        shootnorm == FMul(Frac(flux), getXNorm(nu))
    IN [nu |-> nu, flux |-> flux, gs |-> gs, info |-> rec,
        r0 |-> r0, re |-> re, r0_sq |-> FMul(r0, r0),
        inv_r0 |-> FDiv(Frac(1), r0),
        shootnorm |-> shootnorm,
        xnorm |-> FDiv(shootnorm, FMul(r0, r0))]

\* SBSpergel::SBSpergel(nu, size, rType, flux, gsparams)
NewSpergel(nu, size, rType, flux, gs) ==
    LET key == cacheKey(nu, gs, size)
        got == lruGet(cache, key, Len(info) + 1)
    IN
    /\ Len(insts) < MaxInst
    /\ IF ~got.hit /\ SpergelInfoThrows(key[1])
       THEN \* the SBError leaves the constructor: no record, no instance
            /\ cret' = [kind |-> "throw", key |-> key, rec |-> 0]
            /\ UNCHANGED <<cache, info, insts, gone>>
       ELSE LET made == IF got.hit THEN info ELSE Append(info, SpergelInfo(key[1], key[2]))
                hlr == getHLR(made[got.rec])
            IN
            /\ cache' = got.cache
            /\ gone' = gone \cup got.evicted
            /\ info' = [made EXCEPT ![got.rec] = hlr.rec]
            /\ insts' = Append(insts,
                   SBSpergelImpl(nu, size, rType, flux, gs, got.rec, hlr.val))
            /\ cret' = [kind |-> IF got.hit THEN "hit" ELSE "miss",
                        key |-> key, rec |-> got.rec]

----------------------------------------------------------------------------
(* Evaluation of one SBSpergelImpl, insts[1], at a point and over a grid.      *)
(* Coordinates are fractions; a radius is carried by its square.              *)

FSq(a) == FMul(a, a)

\* SBSpergelImpl::xValue(p): _xnorm * _info->xValue(sqrt(p.x*p.x + p.y*p.y) * _inv_r0)
spergelXValue(inst, rec, px, py) ==
    LET rsq == FNorm(FMul(FAdd(FSq(px), FSq(py)), FSq(inst.inv_r0)))
    IN FNorm(FMul(inst.xnorm, infoXValue(rec, rsq).val))

\* SBSpergelImpl::kValue(k): _flux * _info->kValue((k.x*k.x + k.y*k.y) * _r0_sq)
spergelKValue(inst, rec, kx, ky) ==
    LET ksq == FNorm(FMul(FAdd(FSq(kx), FSq(ky)), inst.r0_sq))
    IN FNorm(FMul(Frac(inst.flux), infoKValue(rec, ksq)))

\* an element of the image memory: how often it was written, and its value
Untouched == [n |-> 0, v |-> Frac(0)]

\* the memory under a view of m columns, n rows, step 1 and stride m + skip
blank(m, n, skip) == [k \in 1..(n * (m + skip)) |-> Untouched]

\* *ptr = v, ptr an offset from im.getData()
store(buf, ptr, v) == [buf EXCEPT ![ptr + 1] = [n |-> @.n + 1, v |-> v]]

\* the right-hand side of the store in the inner loops, at scaled coordinates
cellValue(a, x, y) ==
    IF a.space = "x"
    THEN FNorm(FMul(a.inst.xnorm, infoXValue(a.rec, FNorm(FAdd(FSq(x), FSq(y)))).val))
    ELSE FNorm(FMul(Frac(a.inst.flux), infoKValue(a.rec, FNorm(FAdd(FSq(x), FSq(y))))))

\* the inner loop: for (int i=0; i<m; ++i, x+=dx, y+=dyx) *ptr++ = ...
RECURSIVE cols(_, _, _, _, _)
cols(st, i, x, y, a) ==
    IF i >= a.m THEN st
    ELSE cols([buf |-> store(st.buf, st.ptr, cellValue(a, x, y)), ptr |-> st.ptr + 1],
              i + 1, FNorm(FAdd(x, a.dx)), FNorm(FAdd(y, a.dyx)), a)

\* the outer loop: for (int j=0; j<n; ++j, x0+=dxy, y0+=dy, ptr+=a.rowSkip)
RECURSIVE rows(_, _, _, _, _)
rows(st, j, x0, y0, a) ==
    IF j >= a.n THEN st
    ELSE LET r == cols(st, 0, x0, y0, a) IN
         rows([r EXCEPT !.ptr = @ + a.rowSkip], j + 1,
              FNorm(FAdd(x0, a.dxy)), FNorm(FAdd(y0, a.dy)), a)

\* fillXImage(im, x0, dx, izero, y0, dy, jzero) with izero = jzero = 0: the
\* coordinates scaled by _inv_r0, ptr += skip after each row
fillXImage(inst, rec, buf, m, n, skip, x0, dx, y0, dy) ==
    rows([buf |-> buf, ptr |-> 0], 0,
         FMul(Frac(x0), inst.inv_r0), FMul(Frac(y0), inst.inv_r0),
         [space |-> "x", inst |-> inst, rec |-> rec, m |-> m, n |-> n,
          dx |-> FMul(Frac(dx), inst.inv_r0), dyx |-> Frac(0),
          dxy |-> Frac(0), dy |-> FMul(Frac(dy), inst.inv_r0),
          rowSkip |-> skip]).buf

\* fillXImage(im, x0, dx, dxy, y0, dy, dyx): ptr += skip after each row
fillXImageSheared(inst, rec, buf, m, n, skip, x0, dx, dxy, y0, dy, dyx) ==
    rows([buf |-> buf, ptr |-> 0], 0,
         FMul(Frac(x0), inst.inv_r0), FMul(Frac(y0), inst.inv_r0),
         [space |-> "x", inst |-> inst, rec |-> rec, m |-> m, n |-> n,
          dx |-> FMul(Frac(dx), inst.inv_r0), dyx |-> FMul(Frac(dyx), inst.inv_r0),
          dxy |-> FMul(Frac(dxy), inst.inv_r0), dy |-> FMul(Frac(dy), inst.inv_r0),
          rowSkip |-> skip]).buf

\* fillKImage(im, kx0, dkx, izero, ky0, dky, jzero) with izero = jzero = 0: the
\* coordinates scaled by _r0, ptr += skip after each row
fillKImage(inst, rec, buf, m, n, skip, kx0, dkx, ky0, dky) ==
    rows([buf |-> buf, ptr |-> 0], 0,
         FMul(Frac(kx0), inst.r0), FMul(Frac(ky0), inst.r0),
         [space |-> "k", inst |-> inst, rec |-> rec, m |-> m, n |-> n,
          dx |-> FMul(Frac(dkx), inst.r0), dyx |-> Frac(0),
          dxy |-> Frac(0), dy |-> FMul(Frac(dky), inst.r0),
          rowSkip |-> skip]).buf

\* fillKImage(im, kx0, dkx, dkxy, ky0, dky, dkyx): the outer loop's increment is
\* ++j, kx0+=dkxy, ky0+=dky, with no ptr += skip
fillKImageSheared(inst, rec, buf, m, n, skip, kx0, dkx, dkxy, ky0, dky, dkyx) ==
    rows([buf |-> buf, ptr |-> 0], 0,
         FMul(Frac(kx0), inst.r0), FMul(Frac(ky0), inst.r0),
         [space |-> "k", inst |-> inst, rec |-> rec, m |-> m, n |-> n,
          dx |-> FMul(Frac(dkx), inst.r0), dyx |-> FMul(Frac(dkyx), inst.r0),
          dxy |-> FMul(Frac(dkxy), inst.r0), dy |-> FMul(Frac(dky), inst.r0),
          rowSkip |-> 0]).buf

\* the arguments of a grid fill, as kept for the caller
fillArgs(op, space, m, n, skip, x0, dx, dxy, y0, dy, dyx) ==
    [op |-> op, space |-> space, m |-> m, n |-> n, skip |-> skip,
     x0 |-> x0, dx |-> dx, dxy |-> dxy, y0 |-> y0, dy |-> dy, dyx |-> dyx]

\* the record of insts[1]
recOf(inst) == info[inst.info]

\* the four grid fills of insts[1] into fresh image memory.  The axis-aligned ones
\* are followed for izero = jzero = 0 only: the quadrant path they take otherwise
\* (fillXImageQuadrant, fillKImageQuadrant) belongs to SBProfileImpl.
FillXImage(m, n, skip, x0, dx, y0, dy) ==
    /\ insts # <<>>
    /\ im' = fillXImage(insts[1], recOf(insts[1]), blank(m, n, skip),
                        m, n, skip, x0, dx, y0, dy)
    /\ fret' = fillArgs("fillXImage", "x", m, n, skip, x0, dx, 0, y0, dy, 0)

FillXImageSheared(m, n, skip, x0, dx, dxy, y0, dy, dyx) ==
    /\ insts # <<>>
    /\ im' = fillXImageSheared(insts[1], recOf(insts[1]), blank(m, n, skip),
                               m, n, skip, x0, dx, dxy, y0, dy, dyx)
    /\ fret' = fillArgs("fillXImageSheared", "x", m, n, skip, x0, dx, dxy, y0, dy, dyx)

FillKImage(m, n, skip, kx0, dkx, ky0, dky) ==
    /\ insts # <<>>
    /\ im' = fillKImage(insts[1], recOf(insts[1]), blank(m, n, skip),
                        m, n, skip, kx0, dkx, ky0, dky)
    /\ fret' = fillArgs("fillKImage", "k", m, n, skip, kx0, dkx, 0, ky0, dky, 0)

FillKImageSheared(m, n, skip, kx0, dkx, dkxy, ky0, dky, dkyx) ==
    /\ insts # <<>>
    /\ im' = fillKImageSheared(insts[1], recOf(insts[1]), blank(m, n, skip),
                               m, n, skip, kx0, dkx, dkxy, ky0, dky, dkyx)
    /\ fret' = fillArgs("fillKImageSheared", "k", m, n, skip,
                        kx0, dkx, dkxy, ky0, dky, dkyx)

----------------------------------------------------------------------------
(* Calls on one SpergelInfo record, info[1], by a single caller *)

NoLret == [op |-> "none", arg |-> Frac(0), val |-> Frac(0), bessel |-> FALSE]

\* _info->getHLR()
CallGetHLR ==
    /\ info # <<>>
    /\ LET r == getHLR(info[1]) IN
       /\ info' = [info EXCEPT ![1] = r.rec]
       /\ lret' = [NoLret EXCEPT !.op = "getHLR", !.val = Frac(r.val)]
    /\ UNCHANGED <<cache, insts, gone, cret, thr, heap>>

\* _info->stepK()
CallStepK ==
    /\ info # <<>>
    /\ LET r == infoStepK(info[1]) IN
       /\ info' = [info EXCEPT ![1] = r.rec]
       /\ lret' = [NoLret EXCEPT !.op = "stepK", !.val = r.val]
    /\ UNCHANGED <<cache, insts, gone, cret, thr, heap>>

\* _info->maxK()
CallMaxK ==
    /\ info # <<>>
    /\ LET r == infoMaxK(info[1]) IN
       /\ info' = [info EXCEPT ![1] = r.rec]
       /\ lret' = [NoLret EXCEPT !.op = "maxK", !.val = Frac(r.val)]
    /\ UNCHANGED <<cache, insts, gone, cret, thr, heap>>

\* _info->xValue(r), r given by its square
CallXValue(rsq) ==
    /\ info # <<>>
    /\ LET r == infoXValue(info[1], rsq) IN
       lret' = [op |-> "xValue", arg |-> rsq, val |-> r.val, bessel |-> r.bessel]
    /\ UNCHANGED <<cache, info, insts, gone, cret, thr, heap>>

----------------------------------------------------------------------------
(* Calls on the record info[1] by several threads.  The methods take no lock,  *)
(* so each read and each write of a mutable field is a step of its own.        *)

NoTRet == [kind |-> "none", op |-> "none", val |-> Frac(0)]
IdleThread == [pc |-> "idle", op |-> "none", tmp |-> Frac(0),
               ptr |-> NoSampler, ret |-> NoTRet]

LazyOps == {"getHLR", "stepK", "maxK", "shoot"}

\* the test in front of the computation: _re == 0.0, _stepk == 0., _maxk == 0.,
\* !_sampler
lazyUnset(rec, op) ==
    CASE op = "getHLR" -> rec.re = 0
      [] op = "stepK" -> rec.stepk[1] = 0
      [] op = "maxK" -> rec.maxk = 0
      [] op = "shoot" -> ~rec.sampler.set

\* the value computed on first use; for shoot it is shoot_rmax
lazyValue(rec, op) ==
    CASE op = "getHLR" -> Frac(calculateFluxRadius(rec.nu, 50))
      [] op = "stepK" -> stepKValue(rec)
      [] op = "maxK" -> Frac(maxKValue(rec))
      [] op = "shoot" -> Frac(calculateFluxRadius(rec.nu, 100 - shoot_accuracy(rec.gs)))

\* the computation counted on the record
lazyCounted(rec, op) ==
    CASE op = "getHLR" -> [rec EXCEPT !.solves.re = @ + 1]
      [] op = "stepK" -> [rec EXCEPT !.solves.stepk = @ + 1]
      [] op = "maxK" -> [rec EXCEPT !.solves.maxk = @ + 1]
      [] op = "shoot" -> [rec EXCEPT !.solves.sampler = @ + 1]

\* the assignment to the field
lazyStored(rec, op, v) ==
    CASE op = "getHLR" -> [rec EXCEPT !.re = v[1]]
      [] op = "stepK" -> [rec EXCEPT !.stepk = v]
      [] op = "maxK" -> [rec EXCEPT !.maxk = v[1]]

\* the field read for the return statement
lazyRead(rec, op) ==
    CASE op = "getHLR" -> Frac(rec.re)
      [] op = "stepK" -> rec.stepk
      [] op = "maxK" -> Frac(rec.maxk)

\* a thread enters getHLR, stepK, maxK or shoot
TCall(t, op) ==
    /\ thr[t].pc = "idle"
    /\ thr' = [thr EXCEPT ![t] = [IdleThread EXCEPT !.pc = "test", !.op = op]]
    /\ UNCHANGED <<info, heap>>

\* the if in front of the computation
TTest(t) ==
    /\ thr[t].pc = "test"
    /\ thr' = [thr EXCEPT ![t].pc =
                  IF lazyUnset(info[1], thr[t].op) THEN "compute"
                  ELSE IF thr[t].op = "shoot" THEN "use" ELSE "return"]
    /\ UNCHANGED <<info, heap>>

\* the computation, into a local
TCompute(t) ==
    /\ thr[t].pc = "compute"
    /\ thr' = [thr EXCEPT ![t].tmp = lazyValue(info[1], thr[t].op),
                          ![t].pc = IF thr[t].op = "shoot" THEN "radial" ELSE "assign"]
    /\ info' = [info EXCEPT ![1] = lazyCounted(@, thr[t].op)]
    /\ UNCHANGED heap

\* the store to _re, _stepk or _maxk
TAssign(t) ==
    /\ thr[t].pc = "assign"
    /\ info' = [info EXCEPT ![1] = lazyStored(@, thr[t].op, thr[t].tmp)]
    /\ thr' = [thr EXCEPT ![t].pc = "return"]
    /\ UNCHANGED heap

\* return _re, _stepk or _maxk
TReturn(t) ==
    /\ thr[t].pc = "return"
    /\ thr' = [thr EXCEPT ![t].pc = "idle",
                          ![t].ret = [kind |-> "val", op |-> thr[t].op,
                                      val |-> lazyRead(info[1], thr[t].op)]]
    /\ UNCHANGED <<info, heap>>

\* _radial.reset(new Spergel...RadialFunction): the object _radial held is freed
TRadial(t) ==
    /\ thr[t].pc = "radial"
    /\ info' = [info EXCEPT ![1].radial =
                    [set |-> TRUE, id |-> heap.next,
                     kind |-> IF info[1].nu > 0 THEN "NuPositive" ELSE "NuNegative"]]
    /\ heap' = [next |-> heap.next + 1,
                freed |-> heap.freed \cup
                          (IF info[1].radial.set THEN {info[1].radial.id} ELSE {})]
    /\ thr' = [thr EXCEPT ![t].pc = "sampler"]

\* _sampler.reset(new OneDimensionalDeviate(*_radial, range, true, _gsparams)): the
\* new sampler refers to the object _radial holds now; the old sampler is freed
TSampler(t) ==
    /\ thr[t].pc = "sampler"
    /\ info' = [info EXCEPT ![1].sampler =
                    [set |-> TRUE, id |-> heap.next, on |-> info[1].radial.id]]
    /\ heap' = [next |-> heap.next + 1,
                freed |-> heap.freed \cup
                          (IF info[1].sampler.set THEN {info[1].sampler.id} ELSE {})]
    /\ thr' = [thr EXCEPT ![t].pc = "use"]

\* _sampler's pointer read for the call _sampler->shoot(N,ud)
TUse(t) ==
    /\ thr[t].pc = "use"
    /\ thr' = [thr EXCEPT ![t].ptr = info[1].sampler, ![t].pc = "deref"]
    /\ UNCHANGED <<info, heap>>

\* the sampler pointed to, and the radial function it refers to, was freed
dangling(ptr) == ptr.id \in heap.freed \/ ptr.on \in heap.freed

\* OneDimensionalDeviate::shoot through that pointer: on an object already freed
\* the call is undefined, and may crash, return rubbish, or happen to work
TDeref(t) ==
    /\ thr[t].pc = "deref"
    /\ \E k \in (IF dangling(thr[t].ptr) THEN {"crash", "garbage", "photons"}
                  ELSE {"photons"}) :
           thr' = [thr EXCEPT ![t].pc = "idle",
                              ![t].ret = [kind |-> k, op |-> "shoot",
                                          val |-> Frac(thr[t].ptr.id)]]
    /\ UNCHANGED <<info, heap>>

----------------------------------------------------------------------------
(* Specifications *)

InitAdd ==
    /\ obj = NoObj
    /\ ret = NoRet
    /\ pc = "idle"
    /\ sh = NoShoot

InitCache ==
    /\ cache = <<>>
    /\ info = <<>>
    /\ insts = <<>>
    /\ gone = {}
    /\ cret = NoCret

\* number of threads that share one SpergelInfo record
NThreads == 2
Threads == 1..NThreads

InitLazy ==
    /\ thr = [t \in Threads |-> IdleThread]
    /\ heap = [next |-> 1, freed |-> {}]
    /\ lret = NoLret

NoFret == fillArgs("none", "none", 0, 0, 0, 0, 0, 0, 0, 0, 0)

InitFill ==
    /\ im = <<>>
    /\ fret = NoFret

InitGrid ==
    /\ val = <<>>
    /\ fcall = NoFcall

Init == InitAdd /\ InitCache /\ InitLazy /\ InitFill /\ InitGrid

NextAdd ==
    \/ \E slist \in SeqsUpTo(Handles, MaxArgs), gsp \in {NullGs, 1} :
           Construct(slist, gsp) /\ UNCHANGED <<cacheVars, lazyVars, fillVars, gridVars>>
    \/ ConstructEmptyNull /\ UNCHANGED <<cacheVars, lazyVars, fillVars, gridVars>>

\* construction of composites, from simple profiles and from the composite built last
SpecAdd == Init /\ [][NextAdd]_vars

\* the composites the constructor can have built from simple profiles
Built == {SBAdd(SBAddImpl(slist, gsparamsOf(slist[1]))) :
              slist \in SeqsUpTo(Leaves, MaxLen) \ {<<>>}}
         \cup {SBAdd(SBAddImpl(<<>>, g)) : g \in GsSet}

InitBuilt ==
    /\ obj \in Built
    /\ ret = NoRet
    /\ pc = "idle"
    /\ sh = NoShoot
    /\ InitCache
    /\ InitLazy
    /\ InitFill
    /\ InitGrid

NextShoot ==
    \/ \E N \in 0..MaxN : ShootStart(N) /\ UNCHANGED <<cacheVars, lazyVars, fillVars, gridVars>>
    \/ ShootIter /\ UNCHANGED <<cacheVars, lazyVars, fillVars, gridVars>>
    \/ ShootEnd /\ UNCHANGED <<cacheVars, lazyVars, fillVars, gridVars>>

\* photon shooting from an already constructed composite
SpecShoot == InitBuilt /\ [][NextShoot]_vars

NextEval ==
    \/ \E p \in Pts : XValue(p) /\ UNCHANGED <<cacheVars, lazyVars, fillVars, gridVars>>
    \/ \E k \in Pts : KValue(k) /\ UNCHANGED <<cacheVars, lazyVars, fillVars, gridVars>>

\* evaluation of an already constructed composite
SpecEval == InitBuilt /\ [][NextEval]_vars

\* the matrices and lattices handed to the composite: two rows of m columns,
\* x0 = y0 = 0, dx = dy = 1, izero and jzero
\* 0 or 1 together, one shear of the two present
NextGrid ==
    \E m \in 1..MaxDim, z \in {0, 1} :
        \/ FillXValue(m, 2, 0, 1, z, 0, 1, z)
               /\ UNCHANGED <<cacheVars, lazyVars, fillVars>>
        \/ FillKValue(m, 2, 0, 1, z, 0, 1, z)
               /\ UNCHANGED <<cacheVars, lazyVars, fillVars>>
        \/ FillXValueSheared(m, 2, 0, 1, z, 0, 1, 1 - z)
               /\ UNCHANGED <<cacheVars, lazyVars, fillVars>>
        \/ FillKValueSheared(m, 2, 0, 1, z, 0, 1, 1 - z)
               /\ UNCHANGED <<cacheVars, lazyVars, fillVars>>

\* grid fills of an already constructed composite
SpecGrid == InitBuilt /\ [][NextGrid]_vars

NextCache ==
    \E nu \in NuSet, sz \in SizeSet, gs \in GsSet :
        NewSpergel(nu, sz[1], sz[2], sz[3], gs)
            /\ UNCHANGED <<addVars, lazyVars, fillVars, gridVars>>

\* constructions of Spergel profiles through the shared cache
SpecCache == Init /\ [][NextCache]_vars

\* the indices of the records followed on their own: the two ends of the range, and
\* one index on each side of the sign change of _xnorm0
NuLazy == {minimum_spergel_nu, 0, 50, maximum_spergel_nu}

\* one record fresh from its constructor
InitInfo ==
    /\ InitAdd
    /\ cache = <<>>
    /\ info \in {<<SpergelInfo(nu, gs)>> : nu \in NuLazy, gs \in GsSet}
    /\ insts = <<>>
    /\ gone = {}
    /\ cret = NoCret
    /\ InitLazy
    /\ InitFill
    /\ InitGrid

\* the squared radii handed to SpergelInfo::xValue
RsqSet == {Frac(0), Frac(1), <<1, 4>>}

NextLazy ==
    \/ CallGetHLR /\ UNCHANGED <<addVars, fillVars, gridVars>>
    \/ CallStepK /\ UNCHANGED <<addVars, fillVars, gridVars>>
    \/ CallMaxK /\ UNCHANGED <<addVars, fillVars, gridVars>>
    \/ \E rsq \in RsqSet : CallXValue(rsq) /\ UNCHANGED <<addVars, fillVars, gridVars>>

\* calls of one caller on one SpergelInfo record
SpecLazy == InitInfo /\ [][NextLazy]_vars

\* two valid indices, one on each side of the sign test on nu
NuThreads == {minimum_spergel_nu, 50}

\* one Spergel profile as its constructor leaves it, the cache holding its record
InitSpergel ==
    /\ InitAdd
    /\ InitLazy
    /\ InitFill
    /\ InitGrid
    /\ gone = {}
    /\ \E nu \in NuThreads, sz \in SizeSet :
          LET hlr == getHLR(SpergelInfo(nu, 1)) IN
          /\ info = <<hlr.rec>>
          /\ insts = <<SBSpergelImpl(nu, sz[1], sz[2], sz[3], 1, 1, hlr.val)>>
          /\ cache = <<[key |-> cacheKey(nu, 1, sz[1]), rec |-> 1]>>
          /\ cret = [kind |-> "miss", key |-> cacheKey(nu, 1, sz[1]), rec |-> 1]

\* the lattices tried: x0 in Origins and y0 = 0, so that some start on the centre
\* of the profile; dx = 1 and dy = 2; each shear absent or 1
Origins == {-1, 0}
Shears == {0, 1}

FillFrame == <<obj, ret, pc, sh, cache, info, insts, gone, cret, thr, heap, lret,
               val, fcall>>

NextFill ==
    \E m \in 1..MaxDim, n \in 1..MaxDim, skip \in 0..MaxSkip, x0 \in Origins :
        \/ FillXImage(m, n, skip, x0, 1, 0, 2) /\ UNCHANGED FillFrame
        \/ FillKImage(m, n, skip, x0, 1, 0, 2) /\ UNCHANGED FillFrame
        \/ \E dxy \in Shears, dyx \in Shears :
              FillXImageSheared(m, n, skip, x0, 1, dxy, 0, 2, dyx)
                  /\ UNCHANGED FillFrame
        \/ \E dxy \in Shears, dyx \in Shears :
              FillKImageSheared(m, n, skip, x0, 1, dxy, 0, 2, dyx)
                  /\ UNCHANGED FillFrame

\* grid fills of one Spergel profile
SpecFill == InitSpergel /\ [][NextFill]_vars

InitThreads ==
    /\ InitAdd
    /\ cache = <<>>
    /\ info \in {<<SpergelInfo(nu, 1)>> : nu \in NuThreads}
    /\ insts = <<>>
    /\ gone = {}
    /\ cret = NoCret
    /\ InitLazy
    /\ InitFill
    /\ InitGrid

ThreadFrame == <<obj, ret, pc, sh, cache, insts, gone, cret, lret, im, fret,
                 val, fcall>>

NextThreads ==
    \E t \in Threads :
        \/ \E op \in LazyOps : TCall(t, op) /\ UNCHANGED ThreadFrame
        \/ TTest(t) /\ UNCHANGED ThreadFrame
        \/ TCompute(t) /\ UNCHANGED ThreadFrame
        \/ TAssign(t) /\ UNCHANGED ThreadFrame
        \/ TReturn(t) /\ UNCHANGED ThreadFrame
        \/ TRadial(t) /\ UNCHANGED ThreadFrame
        \/ TSampler(t) /\ UNCHANGED ThreadFrame
        \/ TUse(t) /\ UNCHANGED ThreadFrame
        \/ TDeref(t) /\ UNCHANGED ThreadFrame

\* threads calling the lazy methods of one shared SpergelInfo record
SpecThreads == InitThreads /\ [][NextThreads]_vars

----------------------------------------------------------------------------
(* Helpers of the properties *)

\* the simple profiles of a list, nested composites opened, in order
RECURSIVE FlatLeaves(_)
FlatLeaves(sl) ==
    IF sl = <<>> THEN <<>>
    ELSE (IF Head(sl).kind = "SBAdd" THEN FlatLeaves(Head(sl).impl.plist)
          ELSE <<Head(sl)>>)
         \o FlatLeaves(Tail(sl))

\* sums taken from the far end of a sequence
RECURSIVE SeqSum(_)
SeqSum(s) == IF s = <<>> THEN 0 ELSE SeqSum(SubSeq(s, 1, Len(s) - 1)) + s[Len(s)]

RECURSIVE FracSum(_)
FracSum(s) ==
    IF s = <<>> THEN Frac(0) ELSE FAdd(FracSum(SubSeq(s, 1, Len(s) - 1)), s[Len(s)])

Abs(x) == IF x < 0 THEN -x ELSE x
FFinite(a) == a[2] # 0
\* equality of two finite values
FEq(a, b) == FFinite(a) /\ FFinite(b) /\ a[1] * b[2] = b[1] * a[2]
\* equality of magnitudes of two finite values
FAbsEq(a, b) == FFinite(a) /\ FFinite(b) /\ Abs(a[1] * b[2]) = Abs(b[1] * a[2])

Sign(x) == IF x > 0 THEN 1 ELSE IF x < 0 THEN -1 ELSE 0
\* the same double: equal finite values, or the same non-finite one
FSame(a, b) ==
    IF FFinite(a) /\ FFinite(b) THEN a[1] * b[2] = b[1] * a[2]
    ELSE ~FFinite(a) /\ ~FFinite(b) /\ Sign(a[1]) = Sign(b[1])

SetMax(S) == CHOOSE x \in S : \A y \in S : y <= x
SetMin(S) == CHOOSE x \in S : \A y \in S : x <= y

members == obj.impl.plist
isComposite == obj.kind = "SBAdd"
absFlux(p) == getPositiveFlux(p) + getNegativeFlux(p)

----------------------------------------------------------------------------
(* C1 *)

\* C1: after construction from any list, the member list is the list of the simple
\* profiles of the arguments with every nested composite opened in place, the same
\* list a construction directly from those simple profiles gives ([A, composite(B,C)]
\* gives [A,B,C]), and no member of a composite is itself a composite.
C1_Flattening ==
    /\ isComposite => \A i \in 1..Len(members) : members[i].kind = "leaf"
    /\ (ret.op = "construct" /\ ret.err = "none") =>
          members = SBAddImpl(FlatLeaves(ret.args), obj.impl.gs).plist

C1_Witness ==
    /\ ret.op = "construct"
    /\ Len(ret.args) = 2
    /\ ret.args[1].kind = "leaf"
    /\ ret.args[2].kind = "SBAdd"
    /\ Len(ret.args[2].impl.plist) = 2
    /\ Len(members) = 3
    /\ members[1] = ret.args[1]
    /\ members[2] # members[3]

----------------------------------------------------------------------------
(* C2 *)

memberFlux == [i \in 1..Len(members) |-> getFlux(members[i])]
memberFx == [i \in 1..Len(members) |->
                FMul(Frac(getFlux(members[i])), centroid(members[i])[1])]
memberFy == [i \in 1..Len(members) |->
                FMul(Frac(getFlux(members[i])), centroid(members[i])[2])]

\* C2: for a composite with a non-empty member list, the flux is the sum of the
\* members' fluxes and each centroid coordinate is the sum of flux x centroid over
\* the members divided by the total flux; for two members A and B that is
\* flux(A)+flux(B) and (flux(A)*centroid(A)+flux(B)*centroid(B))/(flux(A)+flux(B)).
C2_FluxCentroid ==
    (isComposite /\ members # <<>>) =>
        /\ getFlux(obj) = SeqSum(memberFlux)
        /\ FSame(centroid(obj)[1], FDiv(FracSum(memberFx), Frac(SeqSum(memberFlux))))
        /\ FSame(centroid(obj)[2], FDiv(FracSum(memberFy), Frac(SeqSum(memberFlux))))
        /\ Len(members) = 2 =>
              LET A == members[1]
                  B == members[2]
                  fA == Frac(getFlux(A))
                  fB == Frac(getFlux(B))
              IN /\ getFlux(obj) = getFlux(A) + getFlux(B)
                 /\ \A c \in 1..2 :
                       FSame(centroid(obj)[c],
                             FDiv(FAdd(FMul(fA, centroid(A)[c]), FMul(fB, centroid(B)[c])),
                                  FAdd(fA, fB)))

C2_Witness ==
    /\ isComposite
    /\ Len(members) = 2
    /\ getFlux(members[1]) = 2
    /\ getFlux(members[2]) = 1
    /\ getFlux(obj) = 3
    /\ FEq(centroid(obj)[1], <<1, 3>>)

----------------------------------------------------------------------------
(* C3 *)

memberMaxK == {maxK(members[i]) : i \in 1..Len(members)}
positiveStepK == {stepK(members[i]) : i \in 1..Len(members)} \cap 1..1000

\* C3: after initialize, maxK of the composite is the largest of the members' maxK
\* and stepK is the smallest of the members' positive stepK: a member with a zero or
\* negative stepK, wherever it stands in the list, neither lowers nor replaces the
\* result as long as some member has a positive stepK.
C3_BandLimits ==
    (isComposite /\ members # <<>>) =>
        /\ obj.impl.maxMaxK = SetMax(memberMaxK)
        /\ positiveStepK # {} => obj.impl.minStepK = SetMin(positiveStepK)

----------------------------------------------------------------------------
(* C4 *)

\* C4: construction from an empty member list is rejected with a ConfigurationError:
\* no composite object results, and no member is dereferenced.
C4_EmptyRejected ==
    /\ (ret.op = "construct" /\ ret.args = <<>>) => ret.err = "ConfigurationError"
    /\ isComposite => members # <<>>
    /\ ret.err \notin {"crash", "deref-end"}

----------------------------------------------------------------------------
(* C5 *)

memberX(p) == [i \in 1..Len(members) |-> xValue(members[i], p)]
memberKre(k) == [i \in 1..Len(members) |-> kValue(members[i], k)[1]]
memberKim(k) == [i \in 1..Len(members) |-> kValue(members[i], k)[2]]

C5_Sums ==
    (isComposite /\ members # <<>>) =>
        /\ ret.op = "xValue" => ret.val[1] = SeqSum(memberX(ret.pt))
        /\ ret.op = "kValue" => ret.val = <<SeqSum(memberKre(ret.pt)),
                                            SeqSum(memberKim(ret.pt))>>
        /\ \A p \in Pts : xValue(obj, p) = SeqSum(memberX(p))
        /\ \A k \in Pts : kValue(obj, k) = <<SeqSum(memberKre(k)), SeqSum(memberKim(k))>>

C5_Step == ret'.op \in {"xValue", "kValue"} => obj' = obj

\* C5: for a composite with a non-empty member list, xValue(p) is the sum of the
\* members' xValue(p), each member counted once, and kValue(k) the sum of the
\* members' kValue(k); every call computes it from the members, and a call changes
\* nothing of the composite.
C5_Evaluation == [](C5_Sums) /\ [][C5_Step]_vars

C5_Witness ==
    /\ isComposite
    /\ Len(members) = 3
    /\ ret.op = "xValue"
    /\ xValue(members[1], ret.pt) # 0
    /\ xValue(members[3], ret.pt) # 0
    /\ ret.val[1] # xValue(members[1], ret.pt)

----------------------------------------------------------------------------
(* C6 *)

sources(photons) == {photons[k].src : k \in 1..Len(photons)}
countFrom(photons, i) == Cardinality({k \in 1..Len(photons) : photons[k].src = i})

\* C6: whenever the photons shoot(N) returns were drawn from more than one member,
\* even with a single photon from a second member, the set is marked correlated.
C6_Correlated ==
    (ret.op = "shoot" /\ Cardinality(sources(ret.photons)) > 1) => ret.correlated

C6_Witness ==
    /\ ret.op = "shoot"
    /\ sources(ret.photons) = {1, 2}
    /\ countFrom(ret.photons, 2) = 1
    /\ countFrom(ret.photons, 1) = 2
    /\ ret.correlated

----------------------------------------------------------------------------
(* C7 *)

RECURSIVE allottedBefore(_, _)
allottedBefore(log, j) == IF j <= 1 THEN 0 ELSE allottedBefore(log, j - 1) + log[j - 1].thisN

fluxFrom(j) == SeqSum([m \in 1..(Len(members) - j + 1) |-> absFlux(members[j + m - 1])])

allotmentOK(log, N) ==
    \A j \in 1..Len(log) :
        LET e == log[j] IN
        /\ e.i = j
        /\ j <= Len(members)
        /\ e.trials = N - allottedBefore(log, j)
        /\ j < Len(members) =>
              /\ e.drew
              /\ e.p = <<absFlux(members[j]), fluxFrom(j)>>
              /\ e.thisN \in 0..e.trials
        /\ j = Len(members) =>
              /\ ~e.drew
              /\ e.thisN = e.trials

\* C7: shoot(N) takes the members in list order; every member but the last gets a
\* binomial draw with trials = photons remaining and probability = its absolute flux
\* over the absolute flux of itself and the members not yet processed, a count in
\* 0..remaining; the last member draws nothing and receives all photons remaining.
C7_Allotment ==
    /\ pc # "idle" => allotmentOK(sh.log, sh.N)
    /\ ret.op = "shoot" => allotmentOK(ret.log, ret.pt)

C7_Witness ==
    /\ ret.op = "shoot"
    /\ Len(members) = 3
    /\ Len(ret.log) = 3
    /\ ret.log[1].thisN = 1
    /\ ret.log[2].thisN = 1
    /\ ret.log[2].trials = 2
    /\ ret.log[3].thisN = 1

----------------------------------------------------------------------------
(* C8 *)

\* C8: the thisN photons of a member of absolute flux F_m, each of weight magnitude
\* F_m/thisN, are rescaled by (totalAbsoluteFlux/N)*thisN/F_m, so every photon of
\* the merged set has weight magnitude exactly totalAbsoluteFlux/N, whichever member
\* it came from and whatever the counts drawn.
C8_PhotonWeight ==
    ret.op = "shoot" =>
        \A k \in 1..Len(ret.photons) :
            FAbsEq(ret.photons[k].w, <<absFlux(obj), ret.pt>>)

----------------------------------------------------------------------------
(* C9 *)

\* C9: two Spergel instances constructed with the same nu and the same parameter
\* set hold the identical SpergelInfo record, whatever their sizes and fluxes,
\* unless the cache evicted the earlier one's record; instances with different nu
\* never share a record.
C9_SharedInfo ==
    \A a, b \in 1..Len(insts) :
        a < b =>
            /\ (insts[a].nu = insts[b].nu /\ insts[a].gs = insts[b].gs
                /\ insts[a].info \notin gone) => insts[a].info = insts[b].info
            /\ insts[a].nu # insts[b].nu => insts[a].info # insts[b].info

C9_Witness ==
    \E a, b \in 1..Len(insts) :
        /\ a < b
        /\ insts[a].nu = insts[b].nu
        /\ insts[a].gs = insts[b].gs
        /\ insts[a].flux # insts[b].flux
        /\ ~FEq(insts[a].r0, insts[b].r0)
        /\ insts[a].info = insts[b].info
        /\ \E c \in 1..Len(insts) : a < c /\ c < b /\ insts[c].info # insts[a].info

----------------------------------------------------------------------------
(* C10 *)

cacheKeys(c) == {c[i].key : i \in 1..Len(c)}
without(c, key) == SelectSeq(c, LAMBDA e : e.key # key)

C10_Bounded ==
    /\ Len(cache) <= max_spergel_cache
    /\ Cardinality(cacheKeys(cache)) = Len(cache)

C10_Step ==
    (insts' # insts \/ cret' # cret) =>
        LET key == cret'.key
            stored == {i \in 1..Len(cache) : cache[i].key = key}
        IN
        /\ stored # {} =>
              /\ cret'.kind = "hit"
              /\ \A i \in stored : cret'.rec = cache[i].rec
              /\ cache'[1] = [key |-> key, rec |-> cret'.rec]
              /\ Tail(cache') = without(cache, key)
              /\ Len(info') = Len(info)
              /\ gone' = gone
        /\ (stored = {} /\ cret'.kind # "throw") =>
              /\ cret'.kind = "miss"
              /\ Len(info') = Len(info) + 1
              /\ cret'.rec = Len(info')
              /\ cache'[1] = [key |-> key, rec |-> cret'.rec]
              /\ IF Len(cache) + 1 > max_spergel_cache
                 THEN /\ Tail(cache') = SubSeq(cache, 1, Len(cache) - 1)
                      /\ gone' = gone \cup {cache[Len(cache)].rec}
                 ELSE /\ Tail(cache') = cache
                      /\ gone' = gone

\* C10: on every get(key), a hit returns the record already stored for the key and
\* makes it the most recently used; a miss constructs one new record, puts it in as
\* the most recently used and, if the capacity is then exceeded, evicts exactly the
\* least recently used record; after every get the cache holds at most capacity
\* records and at most one record per key.
C10_LRU == [](C10_Bounded) /\ [][C10_Step]_vars

C10_Witness ==
    /\ Len(insts) = 4
    /\ Cardinality(gone) = 1
    /\ insts[1].info = insts[3].info
    /\ insts[2].info \in gone
    /\ cret.kind = "miss"
    /\ Len(cache) = max_spergel_cache
    /\ cache[2].rec = insts[1].info

----------------------------------------------------------------------------
(* C17 *)

\* C17: shoot(N) marks its result correlated exactly when the member list has more
\* than one member, whatever the counts allotted: a composite of two or more
\* members whose photons all came from one member is still marked, and a
\* composite of a single member is never marked by the composite.
C17_CorrelatedByLength ==
    ret.op = "shoot" =>
        /\ ret.correlated <=> (Len(members) > 1)
        /\ (Len(members) >= 2 /\ Cardinality(sources(ret.photons)) <= 1)
              => ret.correlated
        /\ Len(members) = 1 => ~ret.correlated

\* three members, the first allotted none by its draw, every photon drawn from
\* the second, the third skipped by the break
C17_Witness ==
    /\ ret.op = "shoot"
    /\ Len(members) = 3
    /\ ret.pt = 2
    /\ absFlux(members[1]) > 0
    /\ absFlux(members[3]) > 0
    /\ sources(ret.photons) = {2}
    /\ Len(ret.log) = 2
    /\ ret.log[1].thisN = 0
    /\ ret.correlated

----------------------------------------------------------------------------
(* C18 *)

\* the photons allotted by the entries of a log
allotted(log) == allottedBefore(log, Len(log) + 1)

\* C18: in shoot(N) with N >= 1 and a positive total absolute flux, at every
\* iteration 0 <= remainingN <= N and remainingN is N less the photons allotted so
\* far; the loop makes at most one pass over the member list; on return the
\* members' counts sum to N and the merged set holds exactly N photons.
C18_Conservation ==
    /\ (pc # "idle" /\ sh.N >= 1 /\ sh.totalAbsoluteFlux > 0) =>
          /\ sh.remainingN >= 0
          /\ sh.remainingN <= sh.N
          /\ sh.remainingN = sh.N - allotted(sh.log)
          /\ Len(sh.log) <= Len(members)
          /\ sh.pptr = Len(sh.log) + 1
          /\ Len(sh.result) = allotted(sh.log)
          /\ pc = "mark" => sh.remainingN = 0
    /\ (ret.op = "shoot" /\ ret.pt >= 1 /\ absFlux(obj) > 0) =>
          /\ allotted(ret.log) = ret.pt
          /\ Len(ret.photons) = ret.pt
          /\ Len(ret.log) <= Len(members)
          /\ \A i \in 1..Len(ret.log) :
                 countFrom(ret.photons, i) = ret.log[i].thisN

\* three photons over three members, the loop left by the first break before the
\* last member, whose flux is zero
C18_Witness ==
    /\ ret.op = "shoot"
    /\ ret.pt = 3
    /\ Len(members) = 3
    /\ absFlux(members[3]) = 0
    /\ Len(ret.log) = 2
    /\ ret.log[1].thisN = 1
    /\ ret.log[2].thisN = 2
    /\ Len(ret.photons) = 3

----------------------------------------------------------------------------
(* C19 *)

\* C19: in shoot(N) with a positive total absolute flux, a member's own shoot is
\* called only with a count thisN >= 1 and only for a member of positive absolute
\* flux, so the factor fluxPerPhoton*thisN/thisAbsoluteFlux never has a zero
\* denominator: a member of zero flux that is not last is allotted no photon, and
\* one that is last is not reached, the loop having ended on the remaining flux.
shotsOK(log) ==
    \A j \in 1..Len(log) :
        LET e == log[j] IN
        /\ e.shot => (e.thisN >= 1 /\ absFlux(members[e.i]) > 0)
        /\ (absFlux(members[e.i]) = 0 /\ e.i < Len(members)) =>
               (e.thisN = 0 /\ ~e.shot)
        /\ ~(absFlux(members[e.i]) = 0 /\ e.i = Len(members))

C19_NoZeroDenominator ==
    /\ (pc # "idle" /\ sh.totalAbsoluteFlux > 0) =>
          /\ shotsOK(sh.log)
          /\ \A k \in 1..Len(sh.result) : sh.result[k].w[2] # 0 \/ sh.N = 0
    /\ (ret.op = "shoot" /\ absFlux(obj) > 0) =>
          /\ shotsOK(ret.log)
          /\ \A k \in 1..Len(ret.photons) : ret.photons[k].w[2] # 0 \/ ret.pt = 0

\* a zero-flux member in front is allotted nothing, a zero-flux member at the end
\* is never reached
C19_Witness ==
    /\ ret.op = "shoot"
    /\ ret.pt >= 1
    /\ Len(members) = 3
    /\ absFlux(members[1]) = 0
    /\ absFlux(members[2]) > 0
    /\ absFlux(members[3]) = 0
    /\ Len(ret.log) = 2
    /\ ~ret.log[1].shot
    /\ ret.log[2].shot

----------------------------------------------------------------------------
(* C12 *)

outOfRange(nu) == nu < minimum_spergel_nu \/ nu > maximum_spergel_nu

C12_State ==
    /\ cret.kind = "throw" => outOfRange(cret.key[1])
    /\ cret.kind \in {"hit", "miss"} => ~outOfRange(cret.key[1])
    /\ \A i \in 1..Len(insts) : ~outOfRange(insts[i].nu)
    /\ \A i \in 1..Len(info) : ~outOfRange(info[i].nu)

C12_Step ==
    (cret' # cret \/ insts' # insts) =>
        LET nu == cret'.key[1] IN
        IF outOfRange(nu)
        THEN /\ cret'.kind = "throw"
             /\ insts' = insts
             /\ info' = info
             /\ cache' = cache
        ELSE /\ cret'.kind \in {"hit", "miss"}
             /\ Len(insts') = Len(insts) + 1
             /\ insts'[Len(insts')].nu = nu
             /\ SubSeq(insts', 1, Len(insts)) = insts

\* C12: constructing a Spergel profile with an index strictly below the minimum or
\* strictly above the maximum of the range fails with the error and yields no
\* instance; constructing with an index equal to the minimum or to the maximum
\* succeeds: both ends belong to the range.
C12_Range == [](C12_State) /\ [][C12_Step]_vars

\* both ends built, then an index just above the maximum turned away
C12_Witness ==
    /\ Len(insts) = 2
    /\ insts[1].nu = minimum_spergel_nu
    /\ insts[2].nu = maximum_spergel_nu
    /\ cret.kind = "throw"
    /\ cret.key[1] = maximum_spergel_nu + 1

----------------------------------------------------------------------------
(* C14 *)

\* the record the calls act on
theInfo == info[1]

C14_State ==
    info # <<>> =>
        /\ theInfo.solves.re <= 1
        /\ theInfo.solves.stepk <= 1
        /\ theInfo.solves.maxk <= 1
        /\ theInfo.re # 0 => theInfo.re = calculateFluxRadius(theInfo.nu, 50)
        /\ lret.op = "getHLR" =>
              /\ lret.val = Frac(calculateFluxRadius(theInfo.nu, 50))
              /\ lret.val = Frac(theInfo.re)
        /\ lret.op = "stepK" => lret.val = theInfo.stepk
        /\ lret.op = "maxK" => lret.val = Frac(theInfo.maxk)

C14_Step ==
    info # <<>> =>
        /\ theInfo.re # 0 =>
              /\ info'[1].re = theInfo.re
              /\ info'[1].solves.re = theInfo.solves.re
              /\ lret'.op = "getHLR" => lret'.val = Frac(theInfo.re)
        /\ theInfo.stepk[1] # 0 =>
              /\ info'[1].stepk = theInfo.stepk
              /\ info'[1].solves.stepk = theInfo.solves.stepk
              /\ lret'.op = "stepK" => lret'.val = theInfo.stepk
        /\ theInfo.maxk # 0 =>
              /\ info'[1].maxk = theInfo.maxk
              /\ info'[1].solves.maxk = theInfo.solves.maxk
              /\ lret'.op = "maxK" => lret'.val = Frac(theInfo.maxk)

\* C14: on one SpergelInfo record of a valid nu, getHLR returns
\* calculateFluxRadius(0.5); a single caller makes the root solve for it at most
\* once; every later getHLR, and likewise stepK and maxK, returns the same
\* memoized value and never another.
C14_Memo == [](C14_State) /\ [][C14_Step]_vars

\* all three values memoized, each after one computation, and getHLR called last
C14_Witness ==
    /\ info # <<>>
    /\ lret.op = "getHLR"
    /\ theInfo.solves = [re |-> 1, stepk |-> 1, maxk |-> 1, sampler |-> 0]
    /\ theInfo.re # 0
    /\ theInfo.stepk[1] # 0
    /\ theInfo.maxk # 0

----------------------------------------------------------------------------
(* C15 *)

\* C15: stepK of a SpergelInfo record is pi / R, R the larger of the radius that
\* encloses 1 - folding_threshold of the flux and of stepk_minimum_hlr times the
\* half-light radius of the shape.
C15_StepKFloor ==
    (info # <<>> /\ lret.op = "stepK") =>
        LET R == calculateFluxRadius(theInfo.nu, 100 - folding_threshold(theInfo.gs))
            hlr == calculateFluxRadius(theInfo.nu, 50)
        IN FEq(lret.val,
               FDiv(M_PI, Frac(Max(R, stepk_minimum_hlr(theInfo.gs) * hlr))))

----------------------------------------------------------------------------
(* C16 *)

IsPosInf(a) == a[2] = 0 /\ a[1] > 0

\* C16 as stated: SpergelInfo::xValue at r = 0 returns the limit stored at
\* construction, the Bessel function not evaluated, and that value is finite for
\* every valid nu, nu <= 0 included.
C16_FiniteAtZero ==
    (info # <<>> /\ lret.op = "xValue" /\ lret.arg[1] = 0) =>
        /\ ~lret.bessel
        /\ lret.val = theInfo.xnorm0
        /\ FFinite(lret.val)

\* C16 amended: SpergelInfo::xValue at r = 0 returns the value _xnorm0 stored at
\* construction, the Bessel function not evaluated; that value is finite and
\* positive for a valid nu > 0 and is +infinity for a valid nu <= 0.  At r > 0 the
\* Bessel function is evaluated.
C16_LimitAtZero ==
    (info # <<>> /\ lret.op = "xValue") =>
        IF lret.arg[1] = 0
        THEN /\ ~lret.bessel
             /\ lret.val = theInfo.xnorm0
             /\ theInfo.nu > 0 => (FFinite(lret.val) /\ Sign(lret.val[1]) = Sign(lret.val[2]))
             /\ theInfo.nu <= 0 => IsPosInf(lret.val)
        ELSE lret.bessel /\ FFinite(lret.val)

\* xValue(0) on the record of the smallest valid index
C16_Witness ==
    /\ info # <<>>
    /\ lret.op = "xValue"
    /\ lret.arg[1] = 0
    /\ theInfo.nu = minimum_spergel_nu
    /\ IsPosInf(lret.val)

----------------------------------------------------------------------------
(* C11 *)

\* C11: when several threads make the first request for the same lazy value of
\* one SpergelInfo record at once, the first computation is serialized: at most
\* one thread computes and assigns the field, no thread sees a sampler and radial
\* function pair that is not whole, and all threads return the same value.
C11_Serialized ==
    /\ theInfo.solves.re <= 1
    /\ theInfo.solves.stepk <= 1
    /\ theInfo.solves.maxk <= 1
    /\ theInfo.solves.sampler <= 1
    /\ \A t \in Threads :
          /\ thr[t].pc = "deref" => ~dangling(thr[t].ptr)
          /\ thr[t].ret.kind \notin {"crash", "garbage"}
    /\ \A t, u \in Threads :
          (thr[t].ret.kind # "none" /\ thr[t].ret.op = thr[u].ret.op)
              => thr[t].ret = thr[u].ret

----------------------------------------------------------------------------
(* C13 *)

\* the element of the image memory under cell (i, j) of the view
cellAt(i, j) == im[j * (fret.m + fret.skip) + i + 1]

\* what SBSpergelImpl::xValue or kValue returns at the lattice point of cell (i, j)
pointValue(i, j) ==
    LET x == Frac(fret.x0 + i * fret.dx + j * fret.dxy)
        y == Frac(fret.y0 + i * fret.dyx + j * fret.dy)
    IN IF fret.space = "x"
       THEN spergelXValue(insts[1], recOf(insts[1]), x, y)
       ELSE spergelKValue(insts[1], recOf(insts[1]), x, y)

cellsEqualPoints ==
    \A i \in 0..(fret.m - 1), j \in 0..(fret.n - 1) :
        /\ cellAt(i, j).n > 0
        /\ cellAt(i, j).v = pointValue(i, j)

\* C13: each of the four grid fills of the Spergel profile stores in cell (i, j),
\* for every 0 <= i < m and 0 <= j < n, the value the single-point xValue (resp.
\* kValue) returns at (x0 + i*dx + j*dxy, y0 + i*dyx + j*dy).
C13_GridEqualsPoint == fret.op # "none" => cellsEqualPoints

----------------------------------------------------------------------------
(* C20 *)

\* the offsets of the m*n cells of the view
viewOffsets == {j * (fret.m + fret.skip) + i + 1 :
                   i \in 0..(fret.m - 1), j \in 0..(fret.n - 1)}

addressingOK ==
    \A k \in 1..Len(im) :
        IF k \in viewOffsets THEN im[k].n = 1 ELSE im[k] = Untouched

\* C20: for a view of m columns, n rows, unit step and row padding skip >= 0, each
\* of the four grid fills of the Spergel profile advances the output pointer by
\* skip at the end of each row: it writes the m*n cells of the view, cell (i, j) at
\* offset j*(m+skip)+i, each once, and leaves every padding element as it was.
C20_Addressing == fret.op # "none" => addressingOK

----------------------------------------------------------------------------
(* C21 *)

\* the value of member k at cell c, from the leaves' tables
memberCell(k, c) ==
    IF fcall.a.space = "x"
    THEN <<LeafXVal(members[k].id, latticePt(c, fcall.a)), 0>>
    ELSE LeafKVal(members[k].id, latticePt(c, fcall.a))

\* the sum over all members at cell c
sumCell(c) ==
    <<SeqSum([k \in 1..Len(members) |-> memberCell(k, c)[1]]),
      SeqSum([k \in 1..Len(members) |-> memberCell(k, c)[2]])>>

\* C21: each of the four grid fills of a composite with a non-empty member list
\* evaluates the first member directly into the output and each later member into
\* one scratch matrix of the output's shape that is then added to the output, so
\* every output cell ends as the sum of all members' values at that cell; a
\* composite of one member makes no scratch matrix, and whatever the number of
\* members at most one scratch matrix exists at a time.
C21_GridFill ==
    (fcall.a.op # "none" /\ members # <<>>) =>
        /\ Len(val) = fcall.a.m * fcall.a.n
        /\ \A c \in 1..Len(val) : val[c] = sumCell(c)
        /\ Len(fcall.log) = Len(members)
        /\ \A k \in 1..Len(fcall.log) :
              /\ fcall.log[k].id = members[k].id
              /\ fcall.log[k].a = fcall.a
              /\ fcall.log[k].into = (IF k = 1 THEN "val" ELSE "val2")
        /\ Len(members) = 1 => fcall.allocs = 0
        /\ Len(members) > 1 =>
              (fcall.allocs = 1 /\ fcall.shape = <<fcall.a.m, fcall.a.n>>)
        /\ fcall.peak <= 1
        /\ fcall.live = 0

\* a sheared Fourier-space fill of three members over two columns: one scratch
\* matrix, and a cell whose sum is neither the first nor the last member's value
C21_Witness ==
    /\ fcall.a.op = "fillKValueSheared"
    /\ Len(members) = 3
    /\ fcall.a.m = 2
    /\ fcall.allocs = 1
    /\ fcall.peak = 1
    /\ \E c \in 1..Len(val) :
          /\ val[c] # memberCell(1, c)
          /\ val[c] # memberCell(3, c)
          /\ val[c] = sumCell(c)

====
